---- MODULE Spec2Model ----
(***************************************************************************)
(* State-machine model of the MicroDrop launcher:                          *)
(*   - the version compatibility gate and the launch loop of               *)
(*     profile.launch_profile, bin/profile_launcher.launch_profile and     *)
(*     bin/launch.main;                                                    *)
(*   - the profile registry of bin/profile_launcher (load, filter, save,   *)
(*     the --default path and the LaunchDialog session).                   *)
(*                                                                         *)
(* A version string "M.N" is the pair <<M, N>>.  A used_timestamp value is *)
(* a record [kind, t]: the Python objects None and NaN, and the strings    *)
(* 'None', 'nan' and an ISO date-time text (kind "time", ordered by t).    *)
(***************************************************************************)
EXTENDS Integers, Sequences, FiniteSets, TLC

\* ------------------------------------------------------------------ bounds
MaxMajor == 2
MaxMinor == 1
MaxSpawns == 3
MaxFileLen == 2
MaxFileTime == 2
MaxOps == 1

\* --------------------------------------------------------- program constants
\* Exit code that asks for a restart of the application.
RESTART == 5
\* `return_code = None` before the first spawn (also: no value returned).
NoneRC == -1
\* bin/launch.py get_major_version counts the versions i.0 <= version, i < 5.
LaunchMajorRange == 5

Paths == {"/a", "/b", "/c"}
StartDir == "/home"
Versions == {<<m, n>> : m \in 1..MaxMajor, n \in 0..MaxMinor}
\* No RELEASE-VERSION file in the profile directory.
NoMarker == <<>>
\* No `version` key in the cached latest-version info.
NoVersion == <<>>
\* Exit codes a child application can end with.
ChildCodes == {0, 1, RESTART}
\* Answers of a gtk.MessageDialog with Yes / No buttons; closing the window
\* answers DELETE_EVENT.
ConfirmResponses == {"YES", "NO", "DELETE_EVENT"}
\* Answers of the upgrade prompt: Yes, "Not now" (NO), "Never" (CANCEL).
UpgradeResponses == {"YES", "NO", "CANCEL", "DELETE_EVENT"}

VARIABLES
    installed,          \* pkg_resources.get_distribution('microdrop').version
    marker,             \* marker[p]: content of p/RELEASE-VERSION, or NoMarker
    dirs,               \* the profile directories that exist
    GUI_AVAILABLE,      \* profile.py: gtk could be imported
    cached_info,        \* latest-version.yml: [version, ignore]
    cwd,                \* os.getcwd()
    entry,              \* the program that runs
    pc,                 \* position of that program
    l_impl,             \* which launch implementation is running
    l_path,             \* profile_path of the running launch
    l_stage,            \* position inside the launch
    return_code,        \* return_code of the launch loop
    original_directory, \* cwd saved before os.chdir
    exc,                \* exception that ended the launch ("none" if none)
    spawned,            \* children spawned by the launch (called directly)
    fives,              \* children of that launch that exited with 5
    confirm,            \* answer given to the profile confirmation prompt
    upgrade_response,   \* answer given to the upgrade prompt of this launch
    marker0,            \* marker of l_path when the launch was called
    cwd0,               \* cwd when the launch was called
    verify_result,      \* outcome of verify_profile_version in this launch
    profiles_file,      \* records of profiles.yml, in file order
    df_profiles,        \* the in-memory table of profiles, in row order
    default_flag,       \* args.default
    main_rc,            \* return_code of profile_launcher main
    ops,                \* dialog operations done in this session
    writes,             \* writes of profiles.yml done by main
    file0,              \* profiles.yml before main ran (in a round trip: the
                        \* records of the registry it started from)
    launched,           \* path and label of the profile row that was launched
    table,              \* rows shown by the dialog (get_profiles_table)
    table_is_view,      \* the rows of table are views of df_profiles
    profiles_exists,    \* args.profiles_path.isfile()
    remove_choice,      \* the last answers given to on_remove_clicked
    versions,           \* the versions `conda search --json` lists, in order
    other_versions,     \* what conda would list for 'microdrop-launcher'
    cache_file,         \* what latest-version.yml is on disk
    lcv_result,         \* what load_cached_version returned
    cache_write,        \* how the last write of latest-version.yml ended
    match_major_version, \* argument of conda_upgrade
    calls,              \* calls of conda_upgrade that have ended
    cu_latest_version,  \* latest_version of conda_upgrade: the install target
    installs,           \* install subprocesses started by the last call
    process,            \* return code and output of the install subprocess
    cu_result           \* how the last call ended, and the result it returned

launchVars == <<l_impl, l_path, l_stage, return_code, original_directory, exc,
                spawned, fives, confirm, upgrade_response, marker0, cwd0,
                verify_result>>
envVars == <<installed, marker, dirs, GUI_AVAILABLE, cached_info, cwd>>
regVars == <<profiles_file, df_profiles, default_flag, main_rc, ops, writes,
             file0, launched, table, table_is_view, profiles_exists,
             remove_choice>>
upgVars == <<versions, other_versions, match_major_version, calls, cu_latest_version,
             installs, process, cu_result>>
cacheVars == <<cache_file, lcv_result, cache_write>>
vars == <<envVars, entry, pc, launchVars, regVars, upgVars, cacheVars>>

\* ---------------------------------------------------------------- versions
\* Variant: the whole version string is compared, not its major part.
get_full_version(version) == version

\* profile.py / profile_launcher.py: '{}.0'.format(major digits of version).
get_major_version(version) == <<version[1], 0>>

\* pkg_resources.parse_version(a) <= pkg_resources.parse_version(b).
VersionLeq(a, b) == a[1] < b[1] \/ (a[1] = b[1] /\ a[2] <= b[2])

\* bin/launch.py: sum of (parse_version('%d.0' % i) <= version), i < 5, less 1.
launch_get_major_version(version) ==
    Cardinality({i \in 0..(LaunchMajorRange - 1) : VersionLeq(<<i, 0>>, version)}) - 1

installed_major_version == get_major_version(installed)

\* Variant: any version file is accepted, whatever version it holds.
VerifyMarkerExists(mk, profile_path) ==
    IF mk[profile_path] = NoMarker THEN "IOError" ELSE "ok"

\* Outcome of verify_profile_version(profile_path) when the version files
\* hold mk: "ok", "IOError" (no version file) or "VersionError" (a
\* RuntimeError in profile_launcher.py).
VerifyWith(mk, profile_path) ==
    IF mk[profile_path] = NoMarker THEN "IOError"
    ELSE IF get_major_version(mk[profile_path]) # get_major_version(installed)
         THEN "VersionError"
         ELSE "ok"

verify_profile_version(profile_path) == VerifyWith(marker, profile_path)

\* profile_major_version(profile): None (<<>>) without a version file.
MajorVersionWith(mk, profile) ==
    IF mk[profile] = NoMarker THEN <<>> ELSE get_major_version(mk[profile])

profile_major_version(profile) == MajorVersionWith(marker, profile)

\* ------------------------------------------------------------ launch: call
\* Entry of a launch function: remember what the caller can observe.
CallLaunch(impl, profile_path) ==
    /\ l_impl' = impl
    /\ l_path' = profile_path
    /\ l_stage' = "called"
    /\ return_code' = NoneRC
    /\ original_directory' = cwd
    /\ exc' = "none"
    /\ spawned' = 0
    /\ fives' = 0
    /\ confirm' = "unasked"
    /\ upgrade_response' = "unasked"
    /\ marker0' = marker[profile_path]
    /\ cwd0' = cwd
    /\ verify_result' = "none"

\* The frame of a launch function that has ended is gone.
LaunchFrameGone ==
    /\ l_impl' = "none" /\ l_path' = "" /\ l_stage' = "idle"
    /\ return_code' = NoneRC /\ original_directory' = StartDir
    /\ exc' = "none" /\ spawned' = 0 /\ fives' = 0 /\ confirm' = "unasked"
    /\ upgrade_response' = "unasked"
    /\ marker0' = NoMarker /\ cwd0' = StartDir /\ verify_result' = "none"

\* The launch ends with an exception raised before os.chdir.
RaiseBeforeChdir(e) ==
    /\ exc' = e
    /\ l_stage' = "raised"
    /\ UNCHANGED <<cwd, original_directory, return_code>>

\* original_directory = os.getcwd(); os.chdir(config_file.parent);
\* return_code = None.
EnterLoop ==
    /\ original_directory' = cwd
    /\ cwd' = l_path
    /\ return_code' = NoneRC
    /\ l_stage' = "loop"
    /\ exc' = "none"

\* Variant: the major version string is written to the version file.
WriteMajorMarker(profile_path) ==
    [marker EXCEPT ![profile_path] = get_major_version(installed)]

\* with release_version_path.open('w') as output: output.write(installed).
WriteMarker(profile_path) == [marker EXCEPT ![profile_path] = installed]

\* Variant: the loop body runs once, whatever the child returns.
LoopContinuesOnce(rc) == rc = NoneRC

\* The `while` condition of the launch loop.
LoopContinues(rc) == rc = NoneRC \/ rc = RESTART

\* Variant: no finally clause, the working directory is left where it is.
KeepDirectory == cwd

\* The `finally` clause: os.chdir(original_directory).
RestoredDirectory == original_directory

\* Versions auto_upgrade('microdrop', match_major_version=True) can leave
\* installed: a version with the major version of the installed one.
UpgradeTargets == {v \in Versions : v[1] = installed[1]}

\* -------------------------------------------- profile.launch_profile prelude
\* Variant: the answer 'Never' caches the version without the ignore flag.
UnignoredVersion(version) == [version |-> version, ignore |-> FALSE]

\* cached_info = {'version': latest_version, 'ignore': True}
IgnoredVersion(version) == [version |-> version, ignore |-> TRUE]

\* The upgrade prompt of profile.launch_profile.
P_UpgradePrompt ==
    /\ l_impl = "profile" /\ l_stage = "called"
    /\ LET latest_version == cached_info.version IN
       IF /\ GUI_AVAILABLE
          /\ ~cached_info.ignore
          /\ latest_version # NoVersion
          /\ installed # latest_version
       THEN \E response \in UpgradeResponses :
              /\ upgrade_response' = response
              /\ CASE response = "CANCEL" ->
                        \* Ignore this version from now on; a failure to write
                        \* the cache file is logged and swallowed.
                        /\ \E written \in BOOLEAN :
                             /\ cached_info' = IF written
                                               THEN IgnoredVersion(latest_version)
                                               ELSE cached_info
                             /\ cache_write' = IF written THEN "done"
                                               ELSE "failed"
                        /\ l_stage' = "gate"
                        /\ UNCHANGED <<installed, exc>>
                   [] response = "YES" ->
                        \E ok \in BOOLEAN :
                          IF ok
                          THEN /\ \E v \in UpgradeTargets : installed' = v
                               /\ l_stage' = "gate"
                               /\ UNCHANGED <<cached_info, exc, cache_write>>
                          ELSE /\ exc' = "UpgradeError"
                               /\ l_stage' = "raised"
                               /\ UNCHANGED <<cached_info, installed, cache_write>>
                   [] OTHER ->
                        /\ l_stage' = "gate"
                        /\ UNCHANGED <<cached_info, installed, exc,
                                       cache_write>>
       ELSE /\ l_stage' = "gate"
            /\ UNCHANGED <<cached_info, installed, exc, upgrade_response,
                           cache_write>>
    /\ UNCHANGED <<marker, dirs, GUI_AVAILABLE, cwd, entry, pc, l_impl, l_path,
                   return_code, original_directory, spawned, fives, confirm,
                   marker0, cwd0, verify_result, regVars, upgVars, cache_file,
                   lcv_result>>

\* ------------------------------------------------------------- the gates
\* profile.launch_profile: verify_or_create_profile_version, then chdir.
P_Gate ==
    /\ l_impl = "profile" /\ l_stage = "gate"
    /\ verify_result' = verify_profile_version(l_path)
    /\ LET result == verify_profile_version(l_path) IN
       CASE result = "VersionError" ->
              /\ RaiseBeforeChdir("VersionError")
              /\ UNCHANGED <<marker, confirm>>
         [] result = "IOError" ->
              IF GUI_AVAILABLE
              THEN \E response \in ConfirmResponses :
                     /\ confirm' = response
                     /\ IF response = "NO"
                        THEN /\ RaiseBeforeChdir("VersionError")
                             /\ UNCHANGED marker
                        ELSE /\ marker' = WriteMarker(l_path)
                             /\ EnterLoop
              ELSE /\ marker' = WriteMarker(l_path)
                   /\ EnterLoop
                   /\ UNCHANGED confirm
         [] OTHER ->
              /\ EnterLoop
              /\ UNCHANGED <<marker, confirm>>
    /\ UNCHANGED <<installed, dirs, GUI_AVAILABLE, cached_info, entry, pc,
                   l_impl, l_path, spawned, fives, upgrade_response, marker0,
                   cwd0, regVars, upgVars, cacheVars>>

\* bin/profile_launcher.launch_profile: the gate is inline, gtk is always there.
PL_Gate ==
    /\ l_impl = "profile_launcher" /\ l_stage = "called"
    /\ verify_result' = verify_profile_version(l_path)
    /\ LET result == verify_profile_version(l_path) IN
       CASE result = "VersionError" ->
              /\ RaiseBeforeChdir("RuntimeError")
              /\ UNCHANGED <<marker, confirm>>
         [] result = "IOError" ->
              \E response \in ConfirmResponses :
                /\ confirm' = response
                /\ IF response = "NO"
                   THEN /\ RaiseBeforeChdir("RuntimeError")
                        /\ UNCHANGED marker
                   ELSE /\ marker' = WriteMarker(l_path)
                        /\ EnterLoop
         [] OTHER ->
              /\ EnterLoop
              /\ UNCHANGED <<marker, confirm>>
    /\ UNCHANGED <<installed, dirs, GUI_AVAILABLE, cached_info, entry, pc,
                   l_impl, l_path, spawned, fives, upgrade_response, marker0,
                   cwd0, regVars, upgVars, cacheVars>>

\* bin/launch.main: a missing marker is written without asking; a mismatch
\* of the major version numbers ends the program with SystemExit(-1).
LM_Gate ==
    /\ l_impl = "launch" /\ l_stage = "called"
    /\ LET release_version == IF marker[l_path] = NoMarker THEN installed
                              ELSE marker[l_path] IN
       /\ marker' = IF marker[l_path] = NoMarker THEN WriteMarker(l_path)
                    ELSE marker
       /\ IF launch_get_major_version(release_version) #
             launch_get_major_version(installed)
          THEN RaiseBeforeChdir("SystemExit")
          ELSE EnterLoop
    /\ UNCHANGED <<installed, dirs, GUI_AVAILABLE, cached_info, entry, pc,
                   l_impl, l_path, spawned, fives, confirm, upgrade_response, marker0, cwd0,
                   verify_result, regVars, upgVars, cacheVars>>

\* ---------------------------------------------------------- the launch loop
\* The programs that call one launch directly.
LaunchEntries == {"profile", "profile_launcher", "launch"}

\* spawned and fives count the children of a launch that is called directly;
\* the profile manager keeps no count (its loop is not bounded by MaxSpawns).
Counted == entry \in LaunchEntries

\* One iteration: return_code = sp.call(...); the child exits with code c.
Spawn ==
    /\ l_stage = "loop" /\ LoopContinues(return_code)
    /\ spawned < MaxSpawns
    /\ \E c \in (IF spawned + 1 < MaxSpawns THEN ChildCodes
                 ELSE ChildCodes \ {RESTART}) :
         /\ return_code' = c
         /\ spawned' = IF Counted THEN spawned + 1 ELSE spawned
         /\ fives' = IF Counted /\ c = RESTART THEN fives + 1 ELSE fives
    /\ UNCHANGED <<envVars, entry, pc, l_impl, l_path, l_stage,
                   original_directory, exc, confirm, upgrade_response, marker0, cwd0,
                   verify_result, regVars, upgVars, cacheVars>>

\* sp.call raises (the executable cannot be started): the finally clause
\* restores the working directory and the exception propagates.
SpawnRaises ==
    /\ l_stage = "loop" /\ LoopContinues(return_code)
    /\ spawned < MaxSpawns
    /\ exc' = "OSError"
    /\ l_stage' = "raised"
    /\ cwd' = RestoredDirectory
    /\ UNCHANGED <<installed, marker, dirs, GUI_AVAILABLE, cached_info, entry,
                   pc, l_impl, l_path, return_code, original_directory, spawned,
                   fives, confirm, upgrade_response, marker0, cwd0, verify_result, regVars, upgVars, cacheVars>>

\* The loop ends: the finally clause runs and return_code is returned.
LoopExit ==
    /\ l_stage = "loop" /\ ~LoopContinues(return_code)
    /\ l_stage' = "returned"
    /\ cwd' = RestoredDirectory
    /\ UNCHANGED <<installed, marker, dirs, GUI_AVAILABLE, cached_info, entry,
                   pc, l_impl, l_path, return_code, original_directory, exc,
                   spawned, fives, confirm, upgrade_response, marker0, cwd0, verify_result,
                   regVars, upgVars, cacheVars>>

\* ------------------------------------------------- values of the upgrade code
\* A Python value that holds a version: the str "M.N", the dict of one
\* version that `conda search --json` lists, or None.
VersionStr(v) == [py |-> "str", version |-> v, installed |-> FALSE]
VersionDict(v, i) == [py |-> "dict", version |-> v, installed |-> i]
NoneValue == [py |-> "None", version |-> NoVersion, installed |-> FALSE]

\* No output has been captured.
NoOutput == [already |-> FALSE, new_header |-> FALSE, linking |-> FALSE,
             new_packages |-> {}, updated |-> {}]

\* No install subprocess has been run.
NoProcess == [returncode |-> NoneRC, output |-> NoOutput]

\* No call has ended.
NoResult == [package |-> "microdrop",
             outcome |-> "none", error |-> "none", query |-> "none",
             original_version |-> NoneValue, new_version |-> NoneValue,
             installed_dependencies |-> {}, message |-> NoOutput]

\* on_remove_clicked has not been answered.
NoChoice == [response |-> "none", answer |-> "none", path |-> ""]

NoCache == [version |-> NoVersion, ignore |-> FALSE]

\* What latest-version.yml can be on disk: no file, a file that cannot be
\* read, text that is not YAML, an empty file (yaml.load gives None), a YAML
\* value that is not a mapping, or a mapping (whose content is cached_info).
CacheFileForms ==
    {"missing", "unreadable", "invalid", "empty", "non_mapping", "mapping"}

\* load_cached_version has not been called.
NotLoaded == [from |-> "none", type |-> "none", info |-> NoCache,
              removal |-> "none"]

\* The upgrade code is not running.
UpgradeIdle ==
    /\ cache_file = "mapping" /\ lcv_result = NotLoaded
    /\ cache_write = "none"
    /\ versions = <<>> /\ other_versions = <<>>
    /\ match_major_version = FALSE /\ calls = 0
    /\ cu_latest_version = NoneValue /\ installs = 0
    /\ process = NoProcess /\ cu_result = NoResult

\* No profile row has been launched.
NoRow == [path |-> "", idx |-> 0 - 1]

\* ------------------------------------------- one launch, called directly
CacheValues == {NoCache} \cup [version : Versions, ignore : BOOLEAN]

\* Versions around the end of the range bin/launch.py counts over; only
\* bin/launch.py treats them differently from the other versions.
HighVersions == {<<LaunchMajorRange - 1, 0>>, <<LaunchMajorRange, 0>>,
                 <<LaunchMajorRange + 1, 0>>}

LaunchVersions == IF entry = "launch" THEN Versions \cup HighVersions
                  ELSE Versions

L_Init ==
    /\ entry \in LaunchEntries
    /\ installed \in LaunchVersions
    /\ marker \in [Paths -> {NoMarker}] \cup
                  {[p \in Paths |-> IF p = "/a" THEN v ELSE NoMarker] :
                     v \in LaunchVersions}
    /\ dirs = Paths
    /\ GUI_AVAILABLE \in (IF entry = "profile" THEN BOOLEAN ELSE {TRUE})
    /\ cached_info \in (IF entry = "profile" THEN CacheValues ELSE {NoCache})
    /\ cwd = StartDir
    /\ pc = "start"
    /\ l_impl = "none" /\ l_path = "" /\ l_stage = "idle"
    /\ return_code = NoneRC /\ original_directory = StartDir /\ exc = "none"
    /\ spawned = 0 /\ fives = 0 /\ confirm = "unasked"
    /\ upgrade_response = "unasked"
    /\ marker0 = NoMarker /\ cwd0 = StartDir /\ verify_result = "none"
    /\ profiles_file = <<>> /\ df_profiles = <<>> /\ default_flag = FALSE
    /\ main_rc = NoneRC /\ ops = 0 /\ writes = 0 /\ file0 = <<>>
    /\ launched = NoRow /\ table = <<>> /\ table_is_view = TRUE
    /\ profiles_exists = FALSE /\ remove_choice = NoChoice
    /\ UpgradeIdle

\* The caller calls the launch function on the profile directory /a.
L_Call ==
    /\ entry \in LaunchEntries /\ pc = "start"
    /\ CallLaunch(entry, "/a")
    /\ pc' = "in_launch"
    /\ UNCHANGED <<envVars, entry, regVars, upgVars, cacheVars>>

\* Control is back in the caller, with the return value or the exception.
L_Return ==
    /\ entry \in LaunchEntries /\ pc = "in_launch"
    /\ l_stage \in {"returned", "raised"}
    /\ pc' = "done"
    /\ UNCHANGED <<envVars, entry, launchVars, regVars, upgVars, cacheVars>>

L_Next ==
    \/ L_Call
    \/ P_UpgradePrompt
    \/ P_Gate
    \/ PL_Gate
    \/ LM_Gate
    \/ Spawn
    \/ SpawnRaises
    \/ LoopExit
    \/ L_Return

SpecLaunch == L_Init /\ [][L_Next]_vars

\* --------------------------------------- properties of one launch (SpecLaunch)
\* The launch functions that restart on exit code 5 and return the code.
LoopImpls == {"profile", "profile_launcher"}

\* C1: when launch_profile returns, the value returned is the exit code of
\* the last child spawned, that code is not 5, and every child spawned before
\* it exited with 5: the loop respawned after each 5 and returned the first
\* exit code that is not 5.
LaunchReturnsFirstNonRestartCode ==
    (l_impl \in LoopImpls /\ l_stage = "returned") =>
        /\ return_code # RESTART
        /\ return_code # NoneRC
        /\ return_code \in ChildCodes
        /\ spawned = fives + 1

\* A launch returned 0 after the child had exited with 5 twice.
ReturnedAfterTwoRestarts ==
    /\ l_impl \in LoopImpls /\ l_stage = "returned"
    /\ fives = 2 /\ spawned = 3 /\ return_code = 0

\* C2: on every exit path of a launch (a return or an exception, in
\* launch_profile of both modules and in launch.main) the working directory
\* is the one that was current when the launch was entered.
WorkingDirectoryRestored ==
    l_stage \in {"returned", "raised"} => cwd = cwd0

\* The child could not be started after a restart: the launch had changed
\* the directory and ended with an exception, back in the first directory.
RaisedInsideTheLoop ==
    /\ l_stage = "raised" /\ exc = "OSError" /\ fives = 1
    /\ cwd = cwd0 /\ cwd # l_path

\* The version file of the launched profile holds another major version.
MajorMismatch == marker0 # NoMarker /\ marker0[1] # installed[1]

\* C3: for a profile whose version file holds a major version other than
\* the installed one, launch_profile spawns no child, leaves the working
\* directory alone and never reaches the loop; its gate raises the
\* version-mismatch error.
NoSpawnOnMajorMismatch ==
    (l_impl \in LoopImpls /\ MajorMismatch) =>
        /\ spawned = 0
        /\ cwd = cwd0
        /\ l_stage \notin {"loop", "returned"}
        /\ marker[l_path] = marker0
        /\ verify_result # "none" =>
             /\ verify_result = "VersionError"
             /\ l_stage = "raised"
             /\ exc \in {"VersionError", "RuntimeError"}

\* The gate of profile.launch_profile raised on a major version mismatch.
GateRaisedOnMismatch ==
    /\ l_impl = "profile" /\ MajorMismatch
    /\ l_stage = "raised" /\ exc = "VersionError" /\ verify_result = "VersionError"

\* C4: verify_profile_version returns normally exactly when the version
\* file exists and its leading number equals the installed one, raises the
\* mismatch error exactly when the file exists and the numbers differ, and
\* raises IOError exactly when there is no version file.
VerifyClassifiesVersionFile ==
    verify_result # "none" =>
        LET exists == marker0 # NoMarker
            same == exists /\ marker0[1] = installed[1]
        IN  /\ (verify_result = "ok") <=> same
            /\ (verify_result = "VersionError") <=> (exists /\ ~same)
            /\ (verify_result = "IOError") <=> ~exists

\* A version file with the installed major version and another minor
\* version was accepted.
VerifiedOtherMinorVersion ==
    /\ verify_result = "ok"
    /\ marker0 # NoMarker /\ marker0[1] = installed[1] /\ marker0[2] # installed[2]

\* The launch was called on a profile without a version file and its gate
\* has acted.
GateActedWithoutMarker ==
    /\ l_impl \in LoopImpls /\ marker0 = NoMarker
    /\ l_stage \in {"loop", "returned", "raised"}
    /\ exc # "UpgradeError"

\* C5 (as stated): a version file is created for a profile that had none
\* only after the user answered Yes to the confirmation prompt.
MarkerOnlyAfterUserConfirms ==
    (GateActedWithoutMarker /\ marker[l_path] # NoMarker) => confirm = "YES"

\* C5: for a profile without a version file, the gate writes the file,
\* holding the installed version, unless the user answers No: after the
\* answer Yes, after the prompt is closed without an answer, and without
\* any prompt when profile.py runs without a GUI. After the answer No the
\* gate raises, no version file is written and no child is spawned.
MarkerWrittenUnlessUserDeclines ==
    GateActedWithoutMarker =>
        /\ confirm = "NO" =>
             /\ l_stage = "raised"
             /\ exc \in {"VersionError", "RuntimeError"}
             /\ marker[l_path] = NoMarker
             /\ spawned = 0
             /\ cwd = cwd0
        /\ confirm # "NO" => marker[l_path] = installed
        /\ confirm = "unasked" => (l_impl = "profile" /\ ~GUI_AVAILABLE)

\* The user declined the prompt and the launch ended with the error.
UserDeclinedNewProfile ==
    /\ GateActedWithoutMarker /\ confirm = "NO"
    /\ l_stage = "raised" /\ marker[l_path] = NoMarker

\* ------------------------------------------------------- used_timestamp values
PyNone == [kind |-> "None", t |-> 0]
PyNaN == [kind |-> "NaN", t |-> 0]
StrNone == [kind |-> "'None'", t |-> 0]
StrNan == [kind |-> "'nan'", t |-> 0]
StrTime(t) == [kind |-> "time", t |-> t]

\* pandas.isnull(value).
isnull(value) == value.kind \in {"None", "NaN"}

\* str(value), as applied by DataFrame.astype(str).
astype_str(value) ==
    CASE value = PyNone -> StrNone
      [] value = PyNaN -> StrNan
      [] OTHER -> value

\* Rank of the first character of a string: digits < 'N' < 'n'.
FirstCharRank(value) ==
    CASE value.kind = "time" -> 0
      [] value.kind = "'None'" -> 1
      [] OTHER -> 2

\* Python 2 comparison a < b of two str values.
PyStrLess(a, b) ==
    \/ FirstCharRank(a) < FirstCharRank(b)
    \/ (a.kind = "time" /\ b.kind = "time" /\ a.t < b.t)

\* str(dt.datetime.now()): later than every timestamp of the file.
Now == StrTime(MaxFileTime + 1)

\* ------------------------------------------------------------ table helpers
RECURSIVE InsertDescending(_, _)
\* Insert row r into the descending rows s, after the rows that are not less.
InsertDescending(r, s) ==
    IF s = <<>> THEN <<r>>
    ELSE IF PyStrLess(Head(s).used_timestamp, r.used_timestamp)
         THEN <<r>> \o s
         ELSE <<Head(s)>> \o InsertDescending(r, Tail(s))

RECURSIVE SortDescending(_)
SortDescending(s) ==
    IF s = <<>> THEN <<>>
    ELSE InsertDescending(s[Len(s)], SortDescending(SubSeq(s, 1, Len(s) - 1)))

\* df.sort_values('used_timestamp', ascending=False): the non-null values in
\* descending order (rows that compare equal keep their order), the null
\* values last (na_position='last').
sort_values(s) ==
    SortDescending(SelectSeq(s, LAMBDA r : ~isnull(r.used_timestamp)))
        \o SelectSeq(s, LAMBDA r : isnull(r.used_timestamp))

\* Variant: rows with the same path are all kept.
KeepDuplicates(s) == s

RECURSIVE drop_duplicates(_)
\* df.drop_duplicates(subset=['path']): the first row of each path is kept.
drop_duplicates(s) ==
    IF s = <<>> THEN <<>>
    ELSE LET front == drop_duplicates(SubSeq(s, 1, Len(s) - 1))
             last == s[Len(s)]
         IN IF \E i \in 1..Len(front) : front[i].path = last.path
            THEN front
            ELSE Append(front, last)

\* ignore_index=True: the rows are labelled 0..n-1 in row order.
ResetIndex(s) == [i \in 1..Len(s) |-> [s[i] EXCEPT !.idx = i - 1]]

\* df.append({'path': ..., 'major_version': ...}, ignore_index=True): the
\* used_timestamp of the new row is NaN.
AppendRow(s, path, major_version) ==
    ResetIndex(Append(s, [idx |-> 0, path |-> path, used_timestamp |-> PyNaN,
                          major_version |-> major_version]))

\* df[SAVED_COLUMNS].to_dict('records').
SavedRecords(s) ==
    [i \in 1..Len(s) |-> [path |-> s[i].path,
                          used_timestamp |-> s[i].used_timestamp]]

\* df.astype(str), on the columns that are saved.
TableAsStr(s) ==
    [i \in 1..Len(s) |-> [s[i] EXCEPT !.used_timestamp = astype_str(@)]]

\* mpm.bin.get_plugins_directory().parent
DefaultPath == "/a"

\* bin/profile_launcher.load_profiles_info: the table read from the records
\* `profiles` of the file (the default profile when there are none), sorted
\* and without duplicate paths.
load_profiles_info(profiles) ==
    LET records == IF profiles = <<>>
                   THEN <<[path |-> DefaultPath, used_timestamp |-> PyNone]>>
                   ELSE profiles
        frame == [i \in 1..Len(records) |->
                    [idx |-> i - 1, path |-> records[i].path,
                     used_timestamp |-> records[i].used_timestamp,
                     major_version |-> <<>>]]
    IN drop_duplicates(sort_values(frame))

\* Variant: no row is dropped.
KeepAllRows(mk, s, missing, mismatch) == s

\* drop_version_errors(df, missing, mismatch, inplace=True).
drop_version_errors(mk, s, missing, mismatch) ==
    SelectSeq(s, LAMBDA r :
        LET result == VerifyWith(mk, r.path) IN
        ~ CASE result = "VersionError" -> mismatch
            [] result = "IOError" -> missing
            [] OTHER -> FALSE)

\* df_profiles['major_version'] = df_profiles.path.map(profile_major_version)
WithMajorVersion(mk, s) ==
    [i \in 1..Len(s) |-> [s[i] EXCEPT !.major_version = MajorVersionWith(mk, s[i].path)]]

\* series[label] = value: the row labelled `label`, if there is one.
SetTimestamp(s, label, value) ==
    [i \in 1..Len(s) |-> IF s[i].idx = label
                         THEN [s[i] EXCEPT !.used_timestamp = value]
                         ELSE s[i]]

\* The last lines of main: df.astype(str), sorted most recently used first.
FinalTable(s) == sort_values(TableAsStr(s))

\* The final save of main: the records written to profiles.yml for table s.
save_profiles_info(s) == SavedRecords(FinalTable(s))

\* --------------------------------------------- bin/profile_launcher.main
FilePaths == {"/a", "/b"}
FileTimestamps == {PyNone, StrNone, StrNan} \cup {StrTime(t) : t \in 1..MaxFileTime}
FileRecords == [path : FilePaths, used_timestamp : FileTimestamps]
InitFiles == UNION {[1..n -> FileRecords] : n \in 0..MaxFileLen}

\* The files an earlier run of main has written: text values only, most
\* recent first, one record per path.
WrittenFiles == {f \in InitFiles : f = save_profiles_info(load_profiles_info(f))
                                   /\ f # <<>>}

\* Versions of the RELEASE-VERSION files found when main starts.
InitMarkers == {NoMarker} \cup {<<m, 0>> : m \in 1..MaxMajor}

\* main starts with --default on any profiles file, and with the dialog on
\* a profiles file that an earlier run has written.
M_Init ==
    /\ entry = "profile_manager"
    /\ installed = <<1, MaxMinor>>
    /\ default_flag \in BOOLEAN
    /\ profiles_exists \in BOOLEAN
    /\ profiles_file \in (IF ~profiles_exists THEN {<<>>}
                          ELSE IF default_flag THEN InitFiles ELSE WrittenFiles)
    /\ dirs \in (IF profiles_file = <<>> THEN {Paths, Paths \ {DefaultPath}}
                 ELSE {Paths})
    /\ marker \in {mk \in [Paths -> InitMarkers] :
                     /\ mk["/c"] = NoMarker
                     /\ \A p \in Paths \ dirs : mk[p] = NoMarker}
    /\ GUI_AVAILABLE = TRUE
    /\ cached_info = NoCache
    /\ cwd = StartDir
    /\ pc = "start"
    /\ l_impl = "none" /\ l_path = "" /\ l_stage = "idle"
    /\ return_code = NoneRC /\ original_directory = StartDir /\ exc = "none"
    /\ spawned = 0 /\ fives = 0 /\ confirm = "unasked"
    /\ upgrade_response = "unasked"
    /\ marker0 = NoMarker /\ cwd0 = StartDir /\ verify_result = "none"
    /\ df_profiles = <<>>
    /\ main_rc = NoneRC /\ ops = 0 /\ writes = 0 /\ file0 = profiles_file
    /\ launched = NoRow /\ table = <<>> /\ table_is_view = TRUE
    /\ remove_choice = NoChoice
    /\ UpgradeIdle

\* parse_args: `if not args.profiles_path.isfile(): parser.error(...)`, which
\* prints the usage and ends the program with SystemExit(2).
Main_ParseArgsError ==
    /\ entry = "profile_manager" /\ pc = "start"
    /\ ~profiles_exists
    /\ pc' = "usage_error"
    /\ UNCHANGED <<envVars, entry, launchVars, regVars, upgVars, cacheVars>>

\* main, up to the launch (--default) or the dialog: load the profiles,
\* drop the rows of another major version, write the file, look up the
\* major version of each profile.
Main_LoadFilterSave ==
    /\ entry = "profile_manager" /\ pc = "start"
    /\ profiles_exists
    /\ LET created == profiles_file = <<>> /\ DefaultPath \notin dirs
           mk == IF created THEN WriteMarker(DefaultPath) ELSE marker
           loaded == load_profiles_info(profiles_file)
           kept == drop_version_errors(mk, loaded, FALSE, TRUE)
       IN /\ dirs' = IF created THEN dirs \cup {DefaultPath} ELSE dirs
          /\ marker' = mk
          /\ profiles_file' = SavedRecords(TableAsStr(kept))
          /\ df_profiles' = WithMajorVersion(mk, kept)
          /\ table' = IF default_flag THEN <<>> ELSE WithMajorVersion(mk, kept)
    /\ writes' = writes + 1
    /\ table_is_view' = TRUE
    /\ pc' = IF default_flag THEN "default" ELSE "dialog"
    /\ UNCHANGED <<installed, GUI_AVAILABLE, cached_info, cwd, entry,
                   launchVars, default_flag, main_rc, ops, file0, profiles_exists, remove_choice, upgVars, cacheVars, launched>>

\* Variant: launch_profile_row hands on the last return code of the loop,
\* whether or not launch_profile raised.
LastLoopCode == return_code

\* launch_profile_row: the return code of launch_profile, None when it raised
\* (the exception is shown in an error dialog).
launch_profile_row_result ==
    IF l_stage = "returned" THEN return_code ELSE NoneRC

\* --default: launch_profile_row(df_profiles.iloc[0]).
Main_DefaultLaunch ==
    /\ entry = "profile_manager" /\ pc = "default"
    /\ IF df_profiles = <<>>
       THEN \* iloc[0] of an empty table raises IndexError: main ends.
            /\ pc' = "crashed"
            /\ UNCHANGED <<launchVars, launched>>
       ELSE /\ CallLaunch("profile_launcher", df_profiles[1].path)
            /\ launched' = [path |-> df_profiles[1].path, idx |-> df_profiles[1].idx]
            /\ pc' = "default_launch"
    /\ UNCHANGED <<envVars, entry, profiles_file, df_profiles, default_flag,
                   main_rc, ops, writes, file0, profiles_exists, remove_choice, upgVars, cacheVars, table, table_is_view>>

\* Label used by `df_profiles.used_timestamp[0] = ...`.
DefaultStampLabel == 0

\* --default, after the launch: stamp on exit code 0, then the final save.
Main_DefaultReturn ==
    /\ entry = "profile_manager" /\ pc = "default_launch"
    /\ l_stage \in {"returned", "raised"}
    /\ LET rc == launch_profile_row_result
           stamped == IF rc = 0
                      THEN SetTimestamp(df_profiles, DefaultStampLabel, Now)
                      ELSE df_profiles
       IN /\ df_profiles' = FinalTable(stamped)
          /\ profiles_file' = save_profiles_info(stamped)
          /\ main_rc' = rc
    /\ writes' = writes + 1
    /\ pc' = "done"
    /\ UNCHANGED <<envVars, entry, launchVars, default_flag, ops, file0, profiles_exists, remove_choice, upgVars, cacheVars,
                   launched, table, table_is_view>>

\* ------------------------------------------------------- the LaunchDialog
\* LaunchDialog.import_profile: the selected folder is appended.
Dlg_Import ==
    /\ entry = "profile_manager" /\ pc = "dialog" /\ ops < MaxOps
    /\ \E folder \in dirs :
         /\ df_profiles' = drop_duplicates(
                AppendRow(df_profiles, folder, profile_major_version(folder)))
         /\ table' = df_profiles'
    /\ table_is_view' = TRUE
    /\ ops' = ops + 1
    /\ UNCHANGED <<envVars, entry, pc, launchVars, profiles_file, default_flag,
                   main_rc, writes, file0, profiles_exists, remove_choice, upgVars, cacheVars, launched>>

\* LaunchDialog.create_profile: a configuration directory is created in the
\* selected folder (RELEASE-VERSION included) and the folder is appended.
Dlg_Create ==
    /\ entry = "profile_manager" /\ pc = "dialog" /\ ops < MaxOps
    /\ \E folder \in Paths :
         /\ dirs' = dirs \cup {folder}
         /\ marker' = WriteMarker(folder)
         /\ df_profiles' = drop_duplicates(
                AppendRow(df_profiles, folder, installed_major_version))
         /\ table' = df_profiles'
    /\ table_is_view' = TRUE
    /\ ops' = ops + 1
    /\ UNCHANGED <<installed, GUI_AVAILABLE, cached_info, cwd, entry, pc,
                   launchVars, profiles_file, default_flag, main_rc, writes,
                   file0, profiles_exists, remove_choice, upgVars, cacheVars, launched>>

\* Rows of self.df_profiles left by on_remove_clicked.
WithoutPath(s, path) == SelectSeq(s, LAMBDA r : r.path # path)

\* The answers on_remove_clicked can get: the first prompt, and the yes/no
\* prompt that follows 'Remove with data'.
RemoveChoices ==
    {[response |-> r, answer |-> "none"] : r \in {"REMOVE", "CANCEL"}} \cup
    {[response |-> "REMOVE_WITH_DATA", answer |-> a] : a \in {"YES", "NO"}}

\* Variant: 'Remove with data' deletes the directory before it asks.
DeletesTreeUnasked(response, answer) == response = "REMOVE_WITH_DATA"

\* on_remove_clicked: ph.path(profile_row_i.path).rmtree() is reached.
DeletesTree(response, answer) ==
    response = "REMOVE_WITH_DATA" /\ answer = "YES"

\* on_remove_clicked: the remove prompt is answered for row i of the table.
Dlg_Remove ==
    /\ entry = "profile_manager" /\ pc = "dialog" /\ ops < MaxOps
    /\ \E i \in 1..Len(table) :
       \E choice \in RemoveChoices :
         LET path == table[i].path
             response == choice.response
             answer == choice.answer
         IN
         /\ remove_choice' = [response |-> response, answer |-> answer,
                              path |-> path]
         /\ IF response = "CANCEL"
            THEN \* `return` before the try: nothing is removed.
                 UNCHANGED <<df_profiles, dirs, marker, table, table_is_view>>
            ELSE /\ df_profiles' = WithoutPath(df_profiles, path)
                 /\ IF DeletesTree(response, answer)
                    THEN /\ dirs' = dirs \ {path}
                         /\ marker' = [marker EXCEPT ![path] = NoMarker]
                    ELSE UNCHANGED <<dirs, marker>>
                 /\ IF response = "REMOVE_WITH_DATA" /\ answer = "NO"
                    THEN \* `return` inside the try: the finally clause still
                         \* drops the row, update_profiles_frame is not reached.
                         /\ UNCHANGED table
                         /\ table_is_view' = FALSE
                    ELSE /\ table' = df_profiles'
                         /\ table_is_view' = TRUE
    /\ ops' = ops + 1
    /\ UNCHANGED <<installed, GUI_AVAILABLE, cached_info, cwd, entry, pc,
                   launchVars, profiles_file, default_flag, main_rc, writes,
                   file0, profiles_exists, upgVars, cacheVars, launched>>

\* on_launch_clicked, up to the call of launch_profile.
Dlg_Launch ==
    /\ entry = "profile_manager" /\ pc = "dialog"
    /\ \E i \in 1..Len(table) :
         /\ CallLaunch("profile_launcher", table[i].path)
         /\ launched' = [path |-> table[i].path, idx |-> table[i].idx]
    /\ pc' = "dialog_launch"
    /\ UNCHANGED <<envVars, entry, profiles_file, df_profiles, default_flag,
                   main_rc, ops, writes, file0, profiles_exists, remove_choice, upgVars, cacheVars, table, table_is_view>>

\* on_launch_clicked, after a launch that raised: the dialog runs again.
Dlg_LaunchFailed ==
    /\ entry = "profile_manager" /\ pc = "dialog_launch"
    /\ l_stage \in {"returned", "raised"}
    /\ launch_profile_row_result = NoneRC
    /\ table' = df_profiles
    /\ table_is_view' = TRUE
    /\ pc' = "dialog"
    /\ LaunchFrameGone
    /\ launched' = NoRow
    /\ UNCHANGED <<envVars, entry, profiles_file, df_profiles, default_flag,
                   main_rc, ops, writes, file0, profiles_exists, remove_choice, upgVars, cacheVars>>

\* `profile_row_i.used_timestamp = ...`: the row is a view of the table it
\* was taken from, so the value lands in self.df_profiles when that table
\* is still self.df_profiles.
RowStamp(s, label, value) ==
    IF table_is_view THEN SetTimestamp(s, label, value) ELSE s

\* on_launch_clicked, after a launch that returned an exit code: stamp on
\* exit code 0; the hidden dialog ends and main does the final save.
Dlg_LaunchReturned ==
    /\ entry = "profile_manager" /\ pc = "dialog_launch"
    /\ l_stage \in {"returned", "raised"}
    /\ launch_profile_row_result # NoneRC
    /\ LET rc == launch_profile_row_result
           stamped == IF rc = 0
                      THEN RowStamp(df_profiles, launched.idx, Now)
                      ELSE df_profiles
       IN /\ df_profiles' = FinalTable(stamped)
          /\ profiles_file' = save_profiles_info(stamped)
          /\ main_rc' = rc
    /\ writes' = writes + 1
    /\ pc' = "done"
    /\ UNCHANGED <<envVars, entry, launchVars, default_flag, ops, file0, profiles_exists, remove_choice, upgVars, cacheVars,
                   launched, table, table_is_view>>

\* The user closes the dialog: main does the final save.
Dlg_Close ==
    /\ entry = "profile_manager" /\ pc = "dialog"
    /\ df_profiles' = FinalTable(df_profiles)
    /\ profiles_file' = save_profiles_info(df_profiles)
    /\ main_rc' = NoneRC
    /\ writes' = writes + 1
    /\ pc' = "done"
    /\ UNCHANGED <<envVars, entry, launchVars, default_flag, ops, file0, profiles_exists, remove_choice, upgVars, cacheVars,
                   launched, table, table_is_view>>

\* ------------------------------------------------- save, load, save again
\* Timestamps of a table in memory: those read from a file, and NaN.
TableTimestamps == FileTimestamps \cup {PyNaN}

\* The tables the round trip starts from, duplicate paths included.
Registries ==
    UNION {[1..n -> [idx : {0}, path : FilePaths, used_timestamp : TableTimestamps,
                     major_version : {<<>>}]] : n \in 1..MaxFileLen}

RT_Init ==
    /\ entry = "round_trip"
    /\ installed = <<1, MaxMinor>>
    /\ \E R \in Registries :
         /\ df_profiles = ResetIndex(R)
         /\ file0 = SavedRecords(R)
    /\ profiles_file = <<>>
    /\ dirs = Paths
    /\ marker = [p \in Paths |-> NoMarker]
    /\ GUI_AVAILABLE = TRUE
    /\ cached_info = NoCache
    /\ cwd = StartDir
    /\ pc = "rt_start"
    /\ l_impl = "none" /\ l_path = "" /\ l_stage = "idle"
    /\ return_code = NoneRC /\ original_directory = StartDir /\ exc = "none"
    /\ spawned = 0 /\ fives = 0 /\ confirm = "unasked"
    /\ upgrade_response = "unasked"
    /\ marker0 = NoMarker /\ cwd0 = StartDir /\ verify_result = "none"
    /\ default_flag = FALSE
    /\ main_rc = NoneRC /\ ops = 0 /\ writes = 0
    /\ launched = NoRow /\ table = <<>> /\ table_is_view = TRUE
    /\ profiles_exists = FALSE /\ remove_choice = NoChoice
    /\ UpgradeIdle

\* The registry is saved as main saves it when it ends.
RT_Save ==
    /\ entry = "round_trip" /\ pc = "rt_start"
    /\ profiles_file' = save_profiles_info(df_profiles)
    /\ profiles_exists' = TRUE
    /\ df_profiles' = <<>>
    /\ writes' = writes + 1
    /\ pc' = "rt_saved"
    /\ UNCHANGED <<envVars, entry, launchVars, default_flag, main_rc, ops,
                   file0, remove_choice, upgVars, cacheVars, launched, table, table_is_view>>

\* The file is loaded as main loads it when it starts.
RT_Load ==
    /\ entry = "round_trip" /\ pc = "rt_saved"
    /\ df_profiles' = load_profiles_info(profiles_file)
    /\ pc' = "rt_loaded"
    /\ UNCHANGED <<envVars, entry, launchVars, profiles_file, default_flag,
                   main_rc, ops, writes, file0, profiles_exists, remove_choice, upgVars, cacheVars, launched, table, table_is_view>>

\* The loaded registry is saved again.
RT_SaveAgain ==
    /\ entry = "round_trip" /\ pc = "rt_loaded"
    /\ profiles_file' = save_profiles_info(df_profiles)
    /\ writes' = writes + 1
    /\ pc' = "rt_done"
    /\ UNCHANGED <<envVars, entry, launchVars, df_profiles, default_flag,
                   main_rc, ops, file0, profiles_exists, remove_choice, upgVars, cacheVars, launched, table, table_is_view>>

RT_Next ==
    \/ RT_Save
    \/ RT_Load
    \/ RT_SaveAgain

SpecRoundTrip == RT_Init /\ [][RT_Next]_vars

Init == M_Init

Next ==
    \/ Main_ParseArgsError
    \/ Main_LoadFilterSave
    \/ Main_DefaultLaunch
    \/ Main_DefaultReturn
    \/ Dlg_Import
    \/ Dlg_Create
    \/ Dlg_Remove
    \/ Dlg_Launch
    \/ Dlg_LaunchFailed
    \/ Dlg_LaunchReturned
    \/ Dlg_Close
    \/ PL_Gate
    \/ Spawn
    \/ SpawnRaises
    \/ LoopExit

Spec == Init /\ [][Next]_vars

\* ------------------------------------ properties of the profile manager (Spec)
\* The paths of the records (or rows) of s.
PathsOf(s) == {s[i].path : i \in 1..Len(s)}

\* The version file of profile p holds another major version than installed.
Incompatible(p) == marker[p] # NoMarker /\ marker[p][1] # installed[1]

\* main has loaded, filtered and written the file, and nothing else yet.
LoadedFilteredSaved == entry = "profile_manager" /\ writes = 1 /\ ops = 0

\* C6 (as stated): after main has loaded the profiles file, filtered and
\* saved, every record of an existing profile directory that was in the
\* file is still in the file, the incompatible ones included.
IncompatibleRecordsRemain ==
    LoadedFilteredSaved =>
        \A i \in 1..Len(file0) :
            file0[i].path \in dirs => file0[i].path \in PathsOf(profiles_file)

\* C6: profiles of another major version are excluded from the default
\* selection and from the listing, and main removes their records from the
\* profiles file too: after main has loaded, filtered and saved, the file
\* holds a record for a path of the previous file exactly when that profile
\* is not of another major version, and no record for any other path.
IncompatibleRecordsDropped ==
    LoadedFilteredSaved =>
        /\ \A i \in 1..Len(file0) :
             file0[i].path \in PathsOf(profiles_file) <=> ~Incompatible(file0[i].path)
        /\ \A p \in PathsOf(df_profiles) : ~Incompatible(p)
        /\ PathsOf(df_profiles) = PathsOf(profiles_file)
        /\ file0 # <<>> => PathsOf(profiles_file) \subseteq PathsOf(file0)

\* main has written a file of two profiles without the incompatible one.
IncompatibleRecordGone ==
    /\ LoadedFilteredSaved
    /\ PathsOf(file0) = {"/a", "/b"}
    /\ Incompatible("/a") /\ ~Incompatible("/b")
    /\ PathsOf(profiles_file) = {"/b"}

\* C7: in every state of the manager no two rows of the registry have the
\* same path.
RegistryUniqueByPath ==
    \A i, j \in 1..Len(df_profiles) :
        df_profiles[i].path = df_profiles[j].path => i = j

\* A file with two records of one path was loaded as a single row.
DuplicateRecordsLoadedOnce ==
    /\ entry = "profile_manager" /\ writes = 1
    /\ Len(file0) = 2 /\ file0[1].path = file0[2].path
    /\ Len(df_profiles) = 1 /\ df_profiles[1].path = file0[1].path

\* How recently a profile was used: 0 when never, else its time.
Recency(value) == IF value.kind = "time" THEN value.t ELSE 0

\* C8: every profiles file that main has written lists the records most
\* recently used first: in non-increasing order of used_timestamp, the
\* profiles that were never used last.
WritesMostRecentFirst ==
    (entry = "profile_manager" /\ writes > 0) =>
        \A i, j \in 1..Len(profiles_file) :
            i < j => Recency(profiles_file[i].used_timestamp) >=
                     Recency(profiles_file[j].used_timestamp)

\* C9: when main ends after a launch that returned 0, the record of the
\* profile that was launched holds the time of the launch and no other
\* record does.
LaunchStampsLaunchedProfile ==
    (entry = "profile_manager" /\ pc = "done" /\ main_rc = 0) =>
        /\ \E i \in 1..Len(profiles_file) :
             /\ profiles_file[i].path = launched.path
             /\ profiles_file[i].used_timestamp = Now
        /\ \A i \in 1..Len(profiles_file) :
             profiles_file[i].path # launched.path =>
                 profiles_file[i].used_timestamp # Now

\* ------------------------------- properties of the round trip (SpecRoundTrip)
RECURSIVE MaxOf(_)
\* The largest number of a non-empty finite set of numbers.
MaxOf(S) == LET x == CHOOSE y \in S : TRUE
            IN IF S = {x} THEN x
               ELSE LET m == MaxOf(S \ {x}) IN IF x > m THEN x ELSE m

\* How recently the profile at path p was used, by the records R.
RecencyIn(R, p) ==
    MaxOf({Recency(R[i].used_timestamp) : i \in {k \in 1..Len(R) : R[k].path = p}})

\* C10: after a registry R is saved, loaded and saved again, the file has
\* one record for each path of R and no other, in the most-recent-first
\* order of R (never-used profiles last).
RoundTripKeepsPathsAndOrder ==
    (entry = "round_trip" /\ pc = "rt_done") =>
        /\ PathsOf(profiles_file) = PathsOf(file0)
        /\ \A i, j \in 1..Len(profiles_file) :
             /\ profiles_file[i].path = profiles_file[j].path => i = j
             /\ i < j => RecencyIn(file0, profiles_file[i].path) >=
                         RecencyIn(file0, profiles_file[j].path)

\* ------------------------- more properties of the profile manager (Spec)
\* C11: when main starts with a profiles file that is missing or holds an
\* empty list, it loads the registry: the default profile directory exists
\* afterwards, with its RELEASE-VERSION file (of the installed version) when
\* main had to create it, and the table holds the one record of the default
\* profile (no record only when main dropped it for its major version).
MissingOrEmptyFileLoadsDefaultProfile ==
    [][(entry = "profile_manager" /\ pc = "start" /\ profiles_file = <<>>) =>
          /\ pc' \in {"default", "dialog"}
          /\ DefaultPath \in dirs'
          /\ (DefaultPath \notin dirs => marker'[DefaultPath] = installed)
          /\ PathsOf(df_profiles') \subseteq {DefaultPath}
          /\ Len(df_profiles') <= 1
          /\ (df_profiles' = <<>> =>
                 /\ marker'[DefaultPath] # NoMarker
                 /\ marker'[DefaultPath][1] # installed[1])]_vars

\* C12: a profile directory disappears only in a step of on_remove_clicked
\* in which the user chose 'Remove with data' and answered Yes, and it is
\* the directory of the row that was clicked; after 'Remove', 'Cancel' or
\* the answer No every directory is still there.
TreeDeletedOnlyAfterRemoveWithDataAndYes ==
    [][/\ dirs \ dirs' # {} =>
            /\ remove_choice'.response = "REMOVE_WITH_DATA"
            /\ remove_choice'.answer = "YES"
            /\ dirs \ dirs' = {remove_choice'.path}
            /\ ops' = ops + 1
       /\ (ops' = ops + 1 /\ remove_choice' # remove_choice
             /\ ~(remove_choice'.response = "REMOVE_WITH_DATA"
                  /\ remove_choice'.answer = "YES")) => dirs' = dirs]_vars

\* The directory of a profile that was in the profiles file was deleted by
\* 'Remove with data' and Yes.
TreeDeletedAfterYes ==
    /\ remove_choice.response = "REMOVE_WITH_DATA"
    /\ remove_choice.answer = "YES"
    /\ remove_choice.path \in PathsOf(file0) \ dirs
    /\ remove_choice.path \notin PathsOf(df_profiles)

\* `raise SystemExit(return_code)`: the exit status of the process, which is
\* 0 for SystemExit(None).
SystemExitStatus(code) == IF code = NoneRC THEN 0 ELSE code

\* C13: when main ends after it launched a profile, the exit status of the
\* process is the exit code of the last child when the launch returned, and
\* is not 0 when the launch raised before a child exited.
ExitStatusIsLastChildExitCode ==
    (entry = "profile_manager" /\ pc = "done" /\ launched # NoRow) =>
        /\ l_stage = "returned" => SystemExitStatus(main_rc) = return_code
        /\ l_stage = "raised" => SystemExitStatus(main_rc) # 0

\* C14: when the launch of a profile from the dialog raises, the handler
\* goes back to the dialog: the table is shown again with the rows of the
\* registry, and neither the registry nor the profiles file has changed.
FailedLaunchReturnsToDialog ==
    [][(entry = "profile_manager" /\ pc = "dialog_launch"
          /\ l_stage = "raised") =>
          /\ pc' = "dialog"
          /\ df_profiles' = df_profiles
          /\ profiles_file' = profiles_file
          /\ table' = df_profiles
          /\ dirs' = dirs /\ main_rc' = main_rc /\ writes' = writes]_vars

\* The dialog is shown again after a launch that wrote the version file of
\* a profile and then failed to start the program; a row can be launched.
DialogShownAgainAfterFailedLaunch ==
    /\ entry = "profile_manager" /\ pc = "dialog" /\ ops = 0 /\ writes = 1
    /\ l_stage = "idle"
    /\ \E i \in 1..Len(table) :
         /\ table[i].major_version = <<>>
         /\ marker[table[i].path] = installed

\* ------------------------ more properties of the launch functions (SpecLaunch)
\* C16: a launch by profile.launch_profile never ends with the exception of
\* an upgrade that the user accepted and that failed: after such a failure
\* the launch goes on to the version gate and the launch loop.
FailedUpgradeDoesNotEndLaunch ==
    (l_impl = "profile" /\ exc = "UpgradeError") => l_stage # "raised"

\* ------------------------------------------------ the conda environment
\* Calls of conda_upgrade in one run.
MaxCalls == 2
\* Versions of the package that `conda search` lists.
MaxListed == 3

\* The packages conda_upgrade is called for.
Packages == {"microdrop", "microdrop-launcher"}
\* The package_name argument of conda_upgrade, kept in result['package'].
package_name == cu_result.package
\* A package that conda installs or updates along with it.
Dependency == "dependency"

RECURSIVE Ascending(_)
\* The elements of a set of versions, oldest first, as conda search lists
\* them.
Ascending(S) ==
    IF S = {} THEN <<>>
    ELSE LET last == CHOOSE v \in S : \A w \in S : VersionLeq(w, v)
         IN Append(Ascending(S \ {last}), last)

\* What conda can list for 'microdrop-launcher': nothing, or one version
\* that is installed or not.
OtherListings ==
    {<<>>} \cup {<<VersionDict(<<1, MaxMinor>>, i)>> : i \in BOOLEAN}

\* What `conda search -f microdrop --json` can list: up to MaxListed
\* versions (none for a package no channel has), of which at most one is
\* installed.
SearchListings ==
    {[i \in 1..Len(Ascending(S)) |->
         VersionDict(Ascending(S)[i], Ascending(S)[i] = inst)] :
       S \in {T \in SUBSET Versions : Cardinality(T) <= MaxListed},
       inst \in Versions \cup {NoVersion}}

\* How a call of ch.conda_exec by conda_version_info can end: with the
\* output, or with one of the exceptions its callers handle.
SearchOutcomes == {"ok", "IOError", "CalledProcessError"}

\* conda_version_info: installed_versions[0] if installed_versions else None.
InstalledVersion(vs) ==
    LET installed_versions == SelectSeq(vs, LAMBDA v_i : v_i.installed)
    IN IF installed_versions # <<>> THEN installed_versions[1] ELSE NoneValue

\* The versions of package `name` in the channels and the environment.
ListingOf(name) == IF name = "microdrop" THEN versions ELSE other_versions

\* conda_version_info(package_name): the search is made for 'microdrop',
\* whatever the argument.
conda_version_info(name) ==
    [installed |-> InstalledVersion(versions), versions |-> versions]

\* f_major_version = lambda v: int(v.split('.')[0]) raises AttributeError
\* for a value that has no split method.
f_major_version_raises(v) == v.py # "str"

\* f_major_version of a version string.
f_major_version(v) == v.version[1]

\* filter(lambda v: f_major_version(v) == installed_major_version, vs)[-1]
LatestOfMajor(vs, major) ==
    LET same == SelectSeq(vs, LAMBDA v : f_major_version(v) = major)
    IN same[Len(same)]

\* Exit codes of the install subprocess.
InstallCodes == {0, 1}

\* The lines conda can print for the install of version `to` of the package
\* when version `from` is installed: the package and the dependency are each
\* listed as new, as updated, or not at all.
Listed(name, from, to) ==
    [new : {{}, {[package |-> name, version |-> to]}},
     updated : {{}, {[package |-> name, from |-> from, to |-> to]}}]

InstallOutputs(from, to) ==
    {[already |-> a, new_header |-> (p.new \cup d.new) # {}, linking |-> l,
      new_packages |-> p.new \cup d.new,
      updated |-> p.updated \cup d.updated] :
       a \in BOOLEAN, l \in BOOLEAN,
       p \in {x \in Listed(package_name, from, to) :
                 x.new = {} \/ x.updated = {}},
       d \in {x \in Listed(Dependency, <<1, 0>>, <<1, 1>>) :
                 x.new = {} \/ x.updated = {}}}

\* The output lists version `to` of the package as installed or updated.
ListsTarget(output, to) ==
    \/ \E p \in output.new_packages : p.package = package_name /\ p.version = to
    \/ \E u \in output.updated : u.package = package_name /\ u.to = to

\* Every way the install subprocess can end: its exit code, its output, and
\* whether it installed the target (then the package has that version, the
\* subprocess exits with 0 and lists it).
InstallOutcomes(from, to) ==
    {o \in [returncode : InstallCodes, output : InstallOutputs(from, to),
            done : BOOLEAN] :
        o.done => /\ o.returncode = 0 /\ ListsTarget(o.output, to)
                  /\ ~o.output.already
                  /\ \E i \in 1..Len(ListingOf(package_name)) :
                        ListingOf(package_name)[i].version = to}

\* The listing after version `to` has been installed.
MarkInstalled(vs, to) ==
    [i \in 1..Len(vs) |-> [vs[i] EXCEPT !.installed = (vs[i].version = to)]]

\* ------------------------------------------------------- conda_upgrade
\* Variant: only exit codes above 1 count as a failure.
ExitedAboveOne(returncode) == returncode > 1

\* `if process.returncode != 0: raise RuntimeError(output)`
InstallFailed(returncode) == returncode # 0

\* Variant: the 'already installed' line is used only when no new package
\* is listed.
AlreadyInstalledAndNothingNew(output) == output.already /\ ~output.new_header

\* `if '# All requested packages already installed.' in output: pass`
AlreadyInstalled(output) == output.already

\* cre_package.finditer(packages_str): the `package: version-build` pairs
\* between the INSTALLED header and 'Linking packages'. A line of the
\* UPDATED section, `package: old-build --> new-build`, matches with the old
\* version.
ParsedPackages(output) ==
    output.new_packages \cup
    {[package |-> u.package, version |-> u.from] : u \in output.updated}

\* re.search(...) finds the INSTALLED header followed by 'Linking packages'.
MatchFound(output) == output.new_header /\ output.linking

\* The result of conda_upgrade after the output has been parsed.
ParsedResult(res, output) ==
    IF AlreadyInstalled(output) \/ ~output.new_header THEN res
    ELSE LET packages == ParsedPackages(output)
             own == {p \in packages : p.package = package_name}
         IN [res EXCEPT
               !.new_version =
                   IF own = {} THEN NoneValue
                   ELSE VersionStr((CHOOSE p \in own : TRUE).version),
               !.installed_dependencies = packages \ own]

\* The call ends: it returns res or raises.
EndCall(res) ==
    /\ cu_result' = res
    /\ calls' = calls + 1
    /\ pc' = "cu_done"

Returned(res) == [res EXCEPT !.outcome = "returned"]
Raised(res, e) == [res EXCEPT !.outcome = "raised", !.error = e]

\* conda_upgrade up to the install subprocess: the version query, the
\* choice of latest_version and the comparison with the installed version.
CU_VersionInfo ==
    /\ entry = "conda_upgrade" /\ pc = "cu_start"
    /\ installs' = 0 /\ process' = NoProcess
    /\ \E query \in SearchOutcomes :
         LET version_info == conda_version_info(package_name)
             asked == [NoResult EXCEPT !.query = query,
                                       !.package = package_name]
             res == [asked EXCEPT
                       !.original_version = version_info.installed]
         IN CASE query = "IOError" ->
                   /\ EndCall(Returned(asked))
                   /\ UNCHANGED cu_latest_version
              [] query = "CalledProcessError" ->
                   /\ EndCall(Raised(asked, "CalledProcessError"))
                   /\ UNCHANGED cu_latest_version
              [] OTHER ->
                   IF res.original_version = NoneValue
                   THEN /\ EndCall(Raised(res, "DistributionNotFound"))
                        /\ UNCHANGED cu_latest_version
                   ELSE IF match_major_version
                           /\ (f_major_version_raises(version_info.installed)
                               \/ \E i \in 1..Len(version_info.versions) :
                                     f_major_version_raises(
                                         version_info.versions[i]))
                   THEN /\ EndCall(Raised(res, "AttributeError"))
                        /\ UNCHANGED cu_latest_version
                   ELSE LET latest_version ==
                                IF match_major_version
                                THEN LatestOfMajor(version_info.versions,
                                         f_major_version(version_info.installed))
                                ELSE version_info.versions[
                                         Len(version_info.versions)]
                        IN IF res.original_version = latest_version
                           THEN /\ EndCall(Returned(res))
                                /\ UNCHANGED cu_latest_version
                           ELSE /\ cu_latest_version' = latest_version
                                /\ cu_result' = res
                                /\ pc' = "cu_install"
                                /\ UNCHANGED calls
    /\ UNCHANGED <<envVars, entry, launchVars, regVars, versions,
                   cacheVars, other_versions, match_major_version>>

\* conda_upgrade: `conda install -y package==latest_version` runs and its
\* output is read to the end.
CU_Install ==
    /\ entry = "conda_upgrade" /\ pc = "cu_install"
    /\ \E o \in InstallOutcomes(cu_result.original_version.version,
                                cu_latest_version.version) :
         /\ process' = [returncode |-> o.returncode, output |-> o.output]
         /\ versions' = IF o.done /\ package_name = "microdrop"
                        THEN MarkInstalled(versions, cu_latest_version.version)
                        ELSE versions
         /\ other_versions' =
                IF o.done /\ package_name # "microdrop"
                THEN MarkInstalled(other_versions, cu_latest_version.version)
                ELSE other_versions
    /\ installs' = installs + 1
    /\ pc' = "cu_parse"
    /\ UNCHANGED <<envVars, entry, launchVars, regVars, cacheVars, match_major_version,
                   calls, cu_latest_version, cu_result>>

\* conda_upgrade after process.wait(): the exit code is tested and the
\* output is parsed.
CU_Parse ==
    /\ entry = "conda_upgrade" /\ pc = "cu_parse"
    /\ LET output == process.output IN
       IF InstallFailed(process.returncode)
       THEN EndCall([Raised(cu_result, "RuntimeError") EXCEPT
                        !.message = output])
       ELSE IF ~AlreadyInstalled(output) /\ output.new_header
               /\ ~MatchFound(output)
       THEN \* match is None: match.group raises.
            EndCall(Raised(cu_result, "AttributeError"))
       ELSE EndCall(Returned(ParsedResult(cu_result, output)))
    /\ UNCHANGED <<envVars, entry, launchVars, regVars, versions,
                   cacheVars, other_versions, match_major_version, cu_latest_version, installs, process>>

\* The caller calls conda_upgrade again, with the same arguments.
CU_CallAgain ==
    /\ entry = "conda_upgrade" /\ pc = "cu_done" /\ calls < MaxCalls
    /\ pc' = "cu_start"
    /\ UNCHANGED <<envVars, entry, launchVars, regVars, upgVars, cacheVars>>

\* ------------------------------------------------- auto_upgrade.main
\* How the dry run `conda install --dry-run --json microdrop-launcher` can
\* end for main: a new version would be linked, none would, or conda_exec
\* raises the RuntimeError of a failed command (a CondaHTTPError without a
\* network connection, or another failure).
DryRunOutcomes == {"new_version", "up_to_date", "CondaHTTPError", "OtherError"}

\* How `conda install --json microdrop-launcher --quiet` can end for main:
\* with a log that is JSON, with a log that is not, or with a RuntimeError.
InstallLogOutcomes == {"json", "not_json", "CondaHTTPError", "OtherError"}

\* main returns, or an exception leaves it.
EndMain(e) ==
    /\ cu_result' = IF e = "none" THEN Returned(NoResult)
                    ELSE Raised(NoResult, e)
    /\ pc' = "au_done"

\* main, dry run: both kinds of RuntimeError are reported and main returns.
AU_DryRun ==
    /\ entry = "auto_upgrade" /\ pc = "au_start"
    /\ \E dry_run \in DryRunOutcomes :
         IF dry_run = "new_version"
         THEN /\ pc' = "au_install"
              /\ UNCHANGED cu_result
         ELSE EndMain("none")
    /\ UNCHANGED <<envVars, entry, launchVars, regVars, versions,
                   cacheVars, other_versions, match_major_version, calls, cu_latest_version, installs,
                   process>>

\* main, install: a CondaHTTPError is reported and main returns; after any
\* other RuntimeError the handler ends without a return and line 100 reads
\* install_log_json, which was never assigned.
AU_Install ==
    /\ entry = "auto_upgrade" /\ pc = "au_install"
    /\ \E install_log \in InstallLogOutcomes :
         /\ EndMain(IF install_log = "OtherError" THEN "UnboundLocalError"
                    ELSE "none")
         /\ installs' = IF install_log \in {"json", "not_json"}
                        THEN installs + 1 ELSE installs
         /\ process' = [returncode |-> IF install_log \in {"json", "not_json"}
                                       THEN 0 ELSE 1,
                        output |-> NoOutput]
    /\ UNCHANGED <<envVars, entry, launchVars, regVars, versions,
                   cacheVars, other_versions, match_major_version, calls, cu_latest_version>>

\* ------------------------------- microdrop_version.cache_microdrop_version
\* cache_microdrop_version: the latest version with the major version of the
\* installed one is written to latest-version.yml unless it is the cached
\* version; a failure to write is logged and swallowed. It is called on its
\* own, or between two launches of a sequence of sessions.
CMV_Call ==
    /\ \/ entry = "cache_microdrop_version" /\ pc = "cmv_start"
       \/ entry = "sessions" /\ pc = "idle"
    /\ \E query \in SearchOutcomes :
         /\ LET installed_info == InstalledVersion(versions) IN
            IF query # "ok" \/ installed_info = NoneValue
            THEN UNCHANGED <<cached_info, cache_write>>
            ELSE LET installed_major ==
                         f_major_version(VersionStr(installed_info.version))
                     latest_info ==
                         LatestOfMajor(
                             [i \in 1..Len(versions) |->
                                 VersionStr(versions[i].version)],
                             installed_major)
                     latest_version == latest_info.version
                 IN IF latest_version # cached_info.version
                    THEN \E written \in BOOLEAN :
                           /\ cached_info' = IF written
                                             THEN [version |-> latest_version,
                                                   ignore |-> FALSE]
                                             ELSE cached_info
                           /\ cache_write' = IF written THEN "done"
                                             ELSE "failed"
                    ELSE UNCHANGED <<cached_info, cache_write>>
         /\ cu_result' = Returned([NoResult EXCEPT !.query = query])
    /\ pc' = IF entry = "sessions" THEN "idle" ELSE "cmv_done"
    /\ UNCHANGED <<installed, marker, dirs, GUI_AVAILABLE, cwd, entry,
                   launchVars, regVars, versions, cache_file, lcv_result, other_versions, match_major_version, calls,
                   cu_latest_version, installs, process>>

\* ----------------------------------- microdrop_version.load_cached_version
\* The Python types yaml.load can give for a value that is not a mapping.
NonMappingTypes == {"list", "str"}

\* Whether the try block of load_cached_version ends with an exception:
\* open or read fails, yaml.load fails, or the assert on the type fails.
LoadRaises(form) == form \in {"unreadable", "invalid", "empty", "non_mapping"}

\* cached_version_info when load_cached_version returns: it starts as {} and
\* is assigned the value yaml.load returned, before the assert on its type.
\* `t` is the type of a value that is not a mapping.
LoadedValue(form, info, t) ==
    CASE form = "mapping" -> [type |-> "dict", info |-> info]
      [] form = "empty" -> [type |-> "NoneType", info |-> NoCache]
      [] form = "non_mapping" -> [type |-> t, info |-> NoCache]
      [] OTHER -> [type |-> "dict", info |-> NoCache]

\* load_cached_version: an existing file is read; after any exception the
\* file is removed, and a failure to remove it is logged and swallowed.
LCV_Call ==
    /\ entry = "load_cached_version" /\ pc = "lcv_start"
    /\ \E t \in NonMappingTypes, removed \in BOOLEAN :
         LET value == LoadedValue(cache_file, cached_info, t)
             removal == IF ~LoadRaises(cache_file) THEN "none"
                        ELSE IF removed THEN "done" ELSE "failed"
         IN /\ lcv_result' = [from |-> cache_file, type |-> value.type,
                          info |-> value.info, removal |-> removal]
            /\ cache_file' = IF removal = "done" THEN "missing"
                             ELSE cache_file
    /\ pc' = "lcv_done"
    /\ UNCHANGED <<envVars, entry, launchVars, regVars, upgVars, cache_write>>

\* ------------------------------------------------------ the upgrade code
UpgradeEntries ==
    {"conda_upgrade", "auto_upgrade", "cache_microdrop_version",
     "load_cached_version"}

U_Init ==
    /\ entry \in UpgradeEntries
    /\ pc = (CASE entry = "conda_upgrade" -> "cu_start"
               [] entry = "auto_upgrade" -> "au_start"
               [] entry = "load_cached_version" -> "lcv_start"
               [] OTHER -> "cmv_start")
    /\ versions \in (IF entry \in {"auto_upgrade", "load_cached_version"}
                     THEN {<<>>} ELSE SearchListings)
    /\ cache_file \in (IF entry = "load_cached_version" THEN CacheFileForms
                       ELSE {"mapping"})
    /\ lcv_result = NotLoaded
    /\ cache_write = "none"
    /\ match_major_version \in (IF entry = "conda_upgrade" THEN BOOLEAN
                                ELSE {FALSE})
    /\ cached_info \in (IF \/ entry = "cache_microdrop_version"
                           \/ entry = "load_cached_version"
                              /\ cache_file = "mapping"
                        THEN CacheValues ELSE {NoCache})
    /\ cu_result \in (IF entry = "conda_upgrade"
                      THEN {[NoResult EXCEPT !.package = p] : p \in Packages}
                      ELSE {NoResult})
    /\ other_versions \in (IF package_name = "microdrop" THEN {<<>>}
                           ELSE OtherListings)
    /\ calls = 0 /\ cu_latest_version = NoneValue /\ installs = 0
    /\ process = NoProcess
    /\ installed = <<1, MaxMinor>>
    /\ marker = [p \in Paths |-> NoMarker]
    /\ dirs = Paths
    /\ GUI_AVAILABLE = TRUE
    /\ cwd = StartDir
    /\ l_impl = "none" /\ l_path = "" /\ l_stage = "idle"
    /\ return_code = NoneRC /\ original_directory = StartDir /\ exc = "none"
    /\ spawned = 0 /\ fives = 0 /\ confirm = "unasked"
    /\ upgrade_response = "unasked"
    /\ marker0 = NoMarker /\ cwd0 = StartDir /\ verify_result = "none"
    /\ profiles_file = <<>> /\ df_profiles = <<>> /\ default_flag = FALSE
    /\ main_rc = NoneRC /\ ops = 0 /\ writes = 0 /\ file0 = <<>>
    /\ launched = NoRow /\ table = <<>> /\ table_is_view = TRUE
    /\ profiles_exists = FALSE /\ remove_choice = NoChoice

U_Next ==
    \/ CU_VersionInfo
    \/ CU_Install
    \/ CU_Parse
    \/ CU_CallAgain
    \/ AU_DryRun
    \/ AU_Install
    \/ CMV_Call
    \/ LCV_Call

SpecUpgrade == U_Init /\ [][U_Next]_vars

\* ------------------------------ properties of the upgrade code (SpecUpgrade)
\* C15: whatever the package manager does during the dry run, the install or
\* the version query, auto_upgrade.main and cache_microdrop_version return
\* normally: no exception leaves them.
UpgradeCheckNeverRaises ==
    (entry \in {"auto_upgrade", "cache_microdrop_version"}
        /\ pc \in {"au_done", "cmv_done"}) => cu_result.outcome = "returned"

\* The version conda_upgrade is meant to install: the highest listed version,
\* with match_major_version the highest one with the installed major version.
TargetVersion(vs, match) ==
    LET inst == InstalledVersion(vs).version
        same == SelectSeq(vs, LAMBDA v : ~match \/ v.version[1] = inst[1])
    IN same[Len(same)].version

\* The installed version is the one conda_upgrade is meant to install.
UpToDate ==
    /\ InstalledVersion(versions) # NoneValue
    /\ InstalledVersion(versions).version =
           TargetVersion(versions, match_major_version)

\* C17: a call of conda_upgrade that follows another one, when the version
\* query succeeds and the target version is the installed version, returns
\* new_version = None and starts no install subprocess.
SecondCallIsNoOp ==
    [][(entry = "conda_upgrade" /\ pc = "cu_start" /\ calls >= 1
          /\ UpToDate /\ cu_result'.error # "CalledProcessError") =>
          /\ pc' = "cu_done"
          /\ cu_result'.outcome = "returned"
          /\ cu_result'.new_version = NoneValue
          /\ installs' = 0]_vars

\* conda_upgrade has ended after it ran the install subprocess.
EndedAfterInstall ==
    entry = "conda_upgrade" /\ pc = "cu_done" /\ installs = 1

\* C18: when the install subprocess exits with a non-zero code,
\* conda_upgrade raises RuntimeError with the captured output and returns
\* nothing, whatever the output holds.
NonZeroExitRaisesWithOutput ==
    (EndedAfterInstall /\ process.returncode # 0) =>
        /\ cu_result.outcome = "raised"
        /\ cu_result.error = "RuntimeError"
        /\ cu_result.message = process.output

\* A failed install whose output holds the 'already installed' line and a
\* complete list of new packages.
FailedInstallWithFullOutput ==
    /\ EndedAfterInstall /\ process.returncode # 0
    /\ process.output.already /\ MatchFound(process.output)
    /\ cu_result.outcome = "raised"

\* C19: when the install exits with 0 and its output holds the line
\* '# All requested packages already installed.', conda_upgrade returns
\* new_version = None and no installed dependencies, whatever else the
\* output holds.
AlreadyInstalledLineGivesNoUpgrade ==
    (EndedAfterInstall /\ process.returncode = 0 /\ process.output.already) =>
        /\ cu_result.outcome = "returned"
        /\ cu_result.new_version = NoneValue
        /\ cu_result.installed_dependencies = {}

\* The output holds the 'already installed' line and also a complete list
\* of new packages, the dependency among them.
AlreadyInstalledLineWithNewPackages ==
    /\ EndedAfterInstall /\ process.returncode = 0
    /\ process.output.already /\ MatchFound(process.output)
    /\ \E p \in process.output.new_packages : p.package = Dependency
    /\ cu_result.outcome = "returned"

\* The install subprocess of the call that has ended installed the target.
InstalledTheTarget ==
    /\ EndedAfterInstall /\ process.returncode = 0
    /\ InstalledVersion(ListingOf(package_name)).version =
           cu_latest_version.version

\* C20: when the install exits with 0 and has installed the target version,
\* conda_upgrade returns that version as new_version and, as
\* installed_dependencies, exactly the other packages the output lists as
\* new.
InstalledTargetIsNewVersion ==
    InstalledTheTarget =>
        /\ cu_result.outcome = "returned"
        /\ cu_result.new_version = VersionStr(cu_latest_version.version)
        /\ cu_result.installed_dependencies =
               {p \in process.output.new_packages : p.package # package_name}

\* C21: a zero-exit install never makes the upgrade code raise, whatever its
\* output holds: conda_upgrade returns a result and auto_upgrade.main
\* returns, also when the package summary is incomplete or the install log
\* is not JSON.
ZeroExitInstallNeverRaises ==
    (entry \in {"conda_upgrade", "auto_upgrade"} /\ pc \in {"cu_done", "au_done"}
        /\ installs = 1 /\ process.returncode = 0) =>
        cu_result.outcome = "returned"

\* C22: when conda_upgrade has the version info of an installed package, it
\* computes the target: the highest listed version, with match_major_version
\* the highest one with the major version of the installed one. It returns
\* without an install only when that target is installed, and goes on to
\* install that target otherwise.
TargetIsHighestMatchingVersion ==
    [][(entry = "conda_upgrade" /\ pc = "cu_start"
          /\ cu_result'.original_version # NoneValue) =>
          /\ cu_result'.outcome # "raised"
          /\ pc' = "cu_done" => UpToDate
          /\ pc' = "cu_install" =>
                /\ ~UpToDate
                /\ cu_latest_version'.version =
                       TargetVersion(versions, match_major_version)
                /\ (match_major_version =>
                       cu_latest_version'.version[1] =
                           InstalledVersion(versions).version[1])]_vars

\* C23: when the version query succeeds and the package that is named has
\* no installed entry (also when no version of it is listed at all),
\* conda_upgrade raises the not-installed error, DistributionNotFound, and
\* starts no install subprocess.
NotInstalledFailsBeforeInstall ==
    [][(entry = "conda_upgrade" /\ pc = "cu_start"
          /\ cu_result'.query = "ok"
          /\ \A i \in 1..Len(ListingOf(package_name)) :
                ~ListingOf(package_name)[i].installed) =>
          /\ pc' = "cu_done"
          /\ cu_result'.outcome = "raised"
          /\ cu_result'.error = "DistributionNotFound"
          /\ cu_result'.original_version = NoneValue
          /\ installs' = 0 /\ process' = NoProcess]_vars

\* C24: the version info conda_upgrade works with is that of the package
\* named by its argument: original_version is the installed entry of that
\* package, and the version it goes on to install is a listed version of
\* that package.
VersionInfoIsOfNamedPackage ==
    [][(entry = "conda_upgrade" /\ pc = "cu_start"
          /\ cu_result'.query = "ok") =>
          /\ cu_result'.package = package_name
          /\ cu_result'.original_version =
                 InstalledVersion(ListingOf(package_name))
          /\ pc' = "cu_install" =>
                \E i \in 1..Len(ListingOf(package_name)) :
                    cu_latest_version' = ListingOf(package_name)[i]]_vars

\* ------------------------------------ launches and version checks in turn
\* A sequence of sessions on one machine: profile.launch_profile is called
\* for the profile /a, cache_microdrop_version runs between the launches,
\* and new versions of the package are released. Nothing is cached at first.
S_Init ==
    /\ entry = "sessions" /\ pc = "idle"
    /\ installed = <<1, MaxMinor>>
    /\ marker = [p \in Paths |-> IF p = "/a" THEN installed ELSE NoMarker]
    /\ dirs = Paths
    /\ GUI_AVAILABLE = TRUE
    /\ cached_info = NoCache
    /\ cwd = StartDir
    /\ l_impl = "none" /\ l_path = "" /\ l_stage = "idle"
    /\ return_code = NoneRC /\ original_directory = StartDir /\ exc = "none"
    /\ spawned = 0 /\ fives = 0 /\ confirm = "unasked"
    /\ upgrade_response = "unasked"
    /\ marker0 = NoMarker /\ cwd0 = StartDir /\ verify_result = "none"
    /\ profiles_file = <<>> /\ df_profiles = <<>> /\ default_flag = FALSE
    /\ main_rc = NoneRC /\ ops = 0 /\ writes = 0 /\ file0 = <<>>
    /\ launched = NoRow /\ table = <<>> /\ table_is_view = TRUE
    /\ profiles_exists = FALSE /\ remove_choice = NoChoice
    /\ versions \in {vs \in SearchListings : InstalledVersion(vs) # NoneValue}
    /\ cache_file = "mapping" /\ lcv_result = NotLoaded
    /\ cache_write = "none"
    /\ other_versions = <<>> /\ match_major_version = FALSE /\ calls = 0
    /\ cu_latest_version = NoneValue /\ installs = 0
    /\ process = NoProcess /\ cu_result = NoResult

\* A session starts: launch_profile('/a') is called.
S_Launch ==
    /\ entry = "sessions" /\ pc = "idle"
    /\ CallLaunch("profile", "/a")
    /\ pc' = "in_launch"
    /\ UNCHANGED <<envVars, entry, regVars, upgVars, cacheVars>>

\* The session ends: launch_profile has returned or raised.
S_LaunchEnds ==
    /\ entry = "sessions" /\ pc = "in_launch"
    /\ l_stage \in {"returned", "raised"}
    /\ LaunchFrameGone
    /\ pc' = "idle"
    /\ UNCHANGED <<envVars, entry, regVars, upgVars, cacheVars>>

\* A new version of the package, higher than the versions listed so far,
\* is released.
S_Release ==
    /\ entry = "sessions" /\ pc = "idle"
    /\ Len(versions) < MaxListed
    /\ \E v \in Versions :
         /\ \A i \in 1..Len(versions) :
               VersionLeq(versions[i].version, v) /\ versions[i].version # v
         /\ versions' = Append(versions, VersionDict(v, FALSE))
    /\ UNCHANGED <<envVars, entry, pc, launchVars, regVars, cacheVars, other_versions,
                   match_major_version, calls, cu_latest_version, installs,
                   process, cu_result>>

S_Next ==
    \/ S_Launch
    \/ P_UpgradePrompt
    \/ P_Gate
    \/ Spawn
    \/ SpawnRaises
    \/ LoopExit
    \/ S_LaunchEnds
    \/ CMV_Call
    \/ S_Release

SpecSessions == S_Init /\ [][S_Next]_vars

\* The step in which the user answers the upgrade prompt with `response`.
Answered(response) ==
    /\ l_impl = "profile" /\ l_stage = "called"
    /\ upgrade_response' = response

\* The answer 'Never' leaves the cache holding the prompted version with
\* ignore = True.
NeverIsCached ==
    Answered("CANCEL") =>
        cached_info' = [version |-> cached_info.version, ignore |-> TRUE]

\* The answer 'Never' leaves the cache holding the prompted version with
\* ignore = True, or, when the cache file could not be written, as it was.
NeverIsCachedIfWritten ==
    Answered("CANCEL") =>
        IF cache_write' = "done"
        THEN cached_info' = [version |-> cached_info.version, ignore |-> TRUE]
        ELSE cache_write' = "failed" /\ cached_info' = cached_info

\* A launch that finds ignore = True in the cache does not prompt.
IgnoredIsNotPrompted ==
    (l_impl = "profile" /\ l_stage = "called" /\ cached_info.ignore) =>
        upgrade_response' = "unasked"

\* As long as the cached version is the same, the ignore flag stays.
IgnoreKeptWhileVersionCached ==
    (cached_info.ignore /\ cached_info'.version = cached_info.version) =>
        cached_info'.ignore

\* cache_microdrop_version leaves the cache as it is while the latest
\* available version of the installed major version is the cached one.
NoRewriteWhileLatestIsCached ==
    (/\ entry = "sessions" /\ pc = "idle" /\ pc' = "idle"
     /\ versions' = versions
     /\ InstalledVersion(versions) # NoneValue
     /\ TargetVersion(versions, TRUE) = cached_info.version) =>
        cached_info' = cached_info

\* The answer 'Not now' leaves the cache unchanged.
NotNowLeavesCache == Answered("NO") => cached_info' = cached_info

LoadAlwaysReturnsDict ==
    (entry = "load_cached_version" /\ pc = "lcv_done") =>
        /\ lcv_result.type = "dict"
        /\ lcv_result.from # "mapping" => lcv_result.info = NoCache
        /\ lcv_result.from \in {"empty", "unreadable", "invalid", "non_mapping"} =>
              /\ lcv_result.removal # "none"
              /\ lcv_result.removal = "done" => cache_file = "missing"

\* C27: bin/launch.py spawns the application only when the major version
\* number of the version file (of the installed version when there was no
\* file) equals the installed major version number, and ends with
\* SystemExit(-1) without spawning otherwise, whatever the major numbers.
LaunchSpawnsOnlyOnEqualMajors ==
    (l_impl = "launch" /\ l_stage # "called") =>
        IF marker0 # NoMarker /\ marker0[1] # installed[1]
        THEN spawned = 0 /\ l_stage = "raised" /\ exc = "SystemExit"
        ELSE exc # "SystemExit"

\* C28: when the remove prompt is answered 'Remove with data' and the
\* confirmation that follows is answered No, the removal is cancelled as a
\* whole: the rows of the registry, the profile directories and their
\* version files are what they were.
DeclinedDataRemovalKeepsProfile ==
    [][(/\ entry = "profile_manager" /\ pc = "dialog" /\ ops' = ops + 1
        /\ remove_choice'.response = "REMOVE_WITH_DATA"
        /\ remove_choice'.answer = "NO") =>
           /\ df_profiles' = df_profiles
           /\ dirs' = dirs
           /\ marker' = marker]_vars

\* The record is of a profile that was never launched: its used_timestamp is
\* null, or the text 'None' or 'nan' a null was saved as.
NeverLaunched(r) == r.used_timestamp.kind # "time"

\* In s a never-launched profile comes before one with a real timestamp.
NeverLaunchedFirst(s) ==
    \E i, j \in 1..Len(s) :
        i < j /\ NeverLaunched(s[i]) /\ ~NeverLaunched(s[j])

\* C29: a profile that was never launched is never ordered before a profile
\* with a real used timestamp: not in the table main holds right after it
\* has loaded the profiles file, and not in any file main has written,
\* whatever earlier runs had saved.
NeverLaunchedOrderedLast ==
    entry = "profile_manager" =>
        /\ writes > 0 => ~NeverLaunchedFirst(profiles_file)
        /\ (pc \in {"default", "dialog"} /\ ops = 0 /\ launched = NoRow) =>
              ~NeverLaunchedFirst(df_profiles)

\* How recently the profile that was launched had been used, by the table.
LaunchedRecency == RecencyIn(df_profiles, launched.path)

\* C30: with --default, main has a profile to select once the file is
\* loaded and the profiles of another major version are dropped (the table
\* is not empty), and the profile it launches is the most recently used one
\* of the table, all of whose profiles are compatible.
DefaultLaunchesMostRecentProfile ==
    (entry = "profile_manager" /\ default_flag) =>
        /\ pc = "default" => df_profiles # <<>>
        /\ pc = "default_launch" =>
             /\ launched.path \in PathsOf(df_profiles)
             /\ ~Incompatible(launched.path)
             /\ \A i \in 1..Len(df_profiles) :
                   LaunchedRecency >= Recency(df_profiles[i].used_timestamp)

====
